---- MODULE Spec2Model ----
(***************************************************************************)
(* JiraAutomator: the three CSV -> tracker pipelines (Importer,            *)
(* ColumnUpdater, DependencyUpdater) as state machines over a tracker      *)
(* whose answers are nondeterministic.                                     *)
(*                                                                         *)
(* A text is a sequence of one-character strings, so that strip(),         *)
(* lower() and split(",") are computed as Python computes them.            *)
(***************************************************************************)
EXTENDS Integers, Sequences, FiniteSets, TLC

VARIABLES
    prog,            \* which script is running
    pc,              \* position of the running script
    dry_run,         \* args.dry_run
    rows,            \* the CSV rows, list(csv.DictReader(f))
    idx,             \* 1-based index of the row the loop is at
    calls,           \* every call of the tracker client, in order (sent or echoed)
    out,             \* the lines printed, in order (tags)
    exit_code,       \* process exit status, -1 while running
    env_ok,          \* credentials present
    csv_ok,          \* the CSV file can be opened
    \* ---- ColumnUpdater.main / Jira / build_fields
    max_arg,         \* args.max (0: not given)
    direction,       \* args.dependencies_direction
    updated, linked, skipped,
    key,             \* the issue key the current row resolved to
    summary,         \* the current row's stripped Summary
    fields,          \* the field delta being built for the current row
    todo,            \* names (or dependency keys) of the current loop still to handle
    user_cache, version_cache, component_cache,
    t_components,    \* tracker: the project's components, as listed
    t_versions,      \* tracker: the project's versions, as listed
    \* ---- Importer.main / search_issues / wipe_project
    no_wipe,         \* args.no_wipe
    start_at,        \* search_issues: start_at
    issues,          \* search_issues: the issues collected so far
    created,         \* summary (or parent:summary) -> key of the issue created
    pending_links,   \* (dep_key, key) pairs to link after the row loop
    current_parent,  \* summary of the last Task created, None before
    t_issues,        \* tracker: the keys of the project's issues, as searched
    page_cap,        \* tracker: the most issues it puts in one page
    \* ---- DependencyUpdater.main
    processed,       \* rows that have both a Summary and a Depends on
    \* ---- Runner.main
    runner           \* Runner's position, --dry-run, the scripts it ran, its status

vars == << prog, pc, dry_run, rows, idx, calls, out, exit_code, env_ok, csv_ok,
           max_arg, direction, updated, linked, skipped, key, summary, fields,
           todo, user_cache, version_cache, component_cache,
           t_components, t_versions, no_wipe, start_at, issues, created,
           pending_links, current_parent, t_issues, page_cap, processed, runner >>

-----------------------------------------------------------------------------
(* Bounds *)

MaxRows == 2

MaxImpRows == 3

MaxMaxArg == 1
MaxIssues == 3
MaxPageCap == 2

-----------------------------------------------------------------------------
(* Text: str.strip, str.lower, str.split(",") *)

IsSpace(c) == c = " "

\* the letters the model's texts are written with
lower_char(c) ==
    CASE c = "A" -> "a"
      [] c = "B" -> "b"
      [] c = "D" -> "d"
      [] c = "E" -> "e"
      [] c = "S" -> "s"
      [] c = "V" -> "v"
      [] c = "X" -> "x"
      [] OTHER -> c

lower(s) == [i \in 1..Len(s) |-> lower_char(s[i])]

RECURSIVE lstrip(_)
lstrip(s) == IF s # <<>> /\ IsSpace(Head(s)) THEN lstrip(Tail(s)) ELSE s

RECURSIVE rstrip(_)
rstrip(s) ==
    IF s # <<>> /\ IsSpace(s[Len(s)]) THEN rstrip(SubSeq(s, 1, Len(s) - 1)) ELSE s

strip(s) == rstrip(lstrip(s))

\* s.split(","): the pieces between commas, empty pieces included
RECURSIVE split(_)
split(s) ==
    IF \E i \in 1..Len(s) : s[i] = ","
    THEN LET i == CHOOSE j \in 1..Len(s) :
                      s[j] = "," /\ \A k \in 1..(j - 1) : s[k] # ","
         IN  <<SubSeq(s, 1, i - 1)>> \o split(SubSeq(s, i + 1, Len(s)))
    ELSE <<s>>

RECURSIVE NonEmptyStripped(_)
NonEmptyStripped(ps) ==
    IF ps = <<>> THEN <<>>
    ELSE IF strip(Head(ps)) # <<>>
         THEN <<strip(Head(ps))>> \o NonEmptyStripped(Tail(ps))
         ELSE NonEmptyStripped(Tail(ps))

\* [x.strip() for x in s.split(",") if x.strip()]
split_list(s) == NonEmptyStripped(split(s))

-----------------------------------------------------------------------------
(* Python values *)

\* None, as a value that is no text any row or response holds
None == <<"<None>">>

EmptyDict == [x \in {} |-> x]

\* dict.get(k), None when absent
dict_get(d, k) == IF k \in DOMAIN d THEN d[k] ELSE None

\* d[k] = v
dict_set(d, k, v) == (k :> v) @@ d

\* One request that reached the tracker, and how it was answered:
\* res is "ok", "status" (a non-success status) or "transport" (the request
\* itself raised)
Request(op, a, b, res) ==
    [op |-> op, row |-> idx, a |-> a, b |-> b, ok |-> (res = "ok"), res |-> res,
     sent |-> TRUE]

\* A request of ColumnUpdater's or DependencyUpdater's Jira client: a
\* non-success status raises in _check, a transport failure raises in
\* requests, and both surface as the same exception at the caller.  For a
\* search b is what the response holds (issues, users)
Call(op, a, b, ok) == Request(op, a, b, IF ok THEN "ok" ELSE "status")

\* One mutating call made in dry-run: the payload is echoed, nothing is sent
Echo(op, a, b) ==
    [op |-> op, row |-> idx, a |-> a, b |-> b, ok |-> TRUE, res |-> "echo",
     sent |-> FALSE]

Line(tag) == [tag |-> tag, row |-> idx]

\* the script was started by hand, not by Runner
NoRunner == [pc |-> "none", dry |-> FALSE, ran |-> <<>>, out |-> <<>>, exit |-> -1]

MutatingOps == {"create_issue", "update_issue", "delete_issue", "create_link",
                "create_component", "create_version"}

-----------------------------------------------------------------------------
(* Inputs of ColumnUpdater: rows of the CSV, the tracker's project *)

ProjectId == <<"P">>

CU_CsvRow(k, s, l, c, v, e, d) ==
    [IssueKey |-> k, Summary |-> s, Labels |-> l, Components |-> c,
     FixVersions |-> v, AssigneeEmail |-> e, Dependencies |-> d]

CU_RowChoices ==
    { CU_CsvRow(<<>>, <<" ", "S">>, <<>>, <<"d">>, <<"V">>, <<>>, <<>>),
      CU_CsvRow(<<"2", " ">>, <<"S">>, <<"a", ",", " ", "b", ",">>, <<"D">>,
             <<"v", ",", "V">>, <<"e">>, <<"1", ",", " ", "3">>),
      CU_CsvRow(<<>>, <<" ">>, <<"a">>, <<"D">>, <<>>, <<>>, <<"1">>),
      CU_CsvRow(<<"1">>, <<>>, <<" ", ",", " ">>, <<" ", ",", " ">>, <<" ">>, <<>>,
             <<"3">>) }

RECURSIVE SeqsUpTo(_, _)
SeqsUpTo(S, n) ==
    IF n = 0 THEN {<<>>}
    ELSE LET shorter == SeqsUpTo(S, n - 1)
         IN  shorter \cup {Append(q, x) : q \in shorter, x \in S}

\* What the project holds before the run
TrackerChoices ==
    { [components |-> <<>>, versions |-> <<>>],
      [components |-> <<<<"D">>>>, versions |-> <<<<"V">>>>] }

\* Answers of POST /search: a non-success status, or the issues found
Issue(k, s) == [key |-> k, summary |-> s]

SearchResponses ==
    { [ok |-> FALSE, issues |-> <<>>],
      [ok |-> TRUE, issues |-> <<>>],
      [ok |-> TRUE,
       issues |-> <<Issue(<<"3">>, <<"S", " ", "x">>), Issue(<<"1">>, <<"s", " ">>)>>] }

\* Answers of GET /user/search: a non-success status, or the accounts found
UserResponses ==
    { [ok |-> FALSE, users |-> <<>>],
      [ok |-> TRUE, users |-> <<>>],
      [ok |-> TRUE, users |-> <<<<"u">>>>] }

-----------------------------------------------------------------------------
(* The tracker's answers.  In a first run any answer may come.  When the
   script is run again on the same project (see CU_Rerun) the tracker behaves
   as before: a request that stands in the log where the first run sent the
   same request is answered as that one was. *)

\* where the log of the second run starts, 0 in a first run
RerunAt ==
    IF \E i \in 1..Len(calls) : calls[i].op = "rerun"
    THEN CHOOSE i \in 1..Len(calls) : calls[i].op = "rerun"
    ELSE 0

\* the first run sent the same request where the n-th next request will stand
HasEarlier(op, a, n) ==
    /\ RerunAt # 0
    /\ Len(calls) + n - RerunAt \in 1..(RerunAt - 1)
    /\ LET c == calls[Len(calls) + n - RerunAt]
       IN  c.op = op /\ c.a = a /\ c.sent

Earlier(n) == calls[Len(calls) + n - RerunAt]

\* resp.ok of the n-th next request
OkAnswers(op, a, n) == IF HasEarlier(op, a, n) THEN {Earlier(n).ok} ELSE BOOLEAN

\* the answer to the search for summary a
SearchAnswers(a) ==
    {resp \in SearchResponses :
        HasEarlier("search", a, 1) =>
            resp.ok = Earlier(1).ok /\ resp.issues = Earlier(1).b}

\* the answer to the user search for email a
UserAnswers(a) ==
    {resp \in UserResponses :
        HasEarlier("user_search", a, 1) =>
            resp.ok = Earlier(1).ok /\ resp.users = Earlier(1).b}

-----------------------------------------------------------------------------
(* ColumnUpdater.Jira helpers *)

\* Jira.search_issue_by_summary, after the request returned `issues`
RECURSIVE first_exact(_, _)
first_exact(results, s) ==
    IF results = <<>> THEN None
    ELSE IF lower(strip(Head(results).summary)) = lower(strip(s))
         THEN Head(results).key
         ELSE first_exact(Tail(results), s)

\* (mutant) the exact-match loop is left out: always the first result
search_first_result(results, s) ==
    IF results # <<>> THEN results[1].key ELSE None

search_issue_by_summary(results, s) ==
    IF first_exact(results, s) # None THEN first_exact(results, s)
    ELSE IF results # <<>> THEN results[1].key ELSE None

\* {c["name"].strip().lower(): c for c in r.json()}: a later entry wins
components_dict(listed) ==
    [k \in {lower(strip(listed[i])) : i \in 1..Len(listed)} |->
        listed[CHOOSE i \in 1..Len(listed) :
                  /\ lower(strip(listed[i])) = k
                  /\ \A j \in (i + 1)..Len(listed) : lower(strip(listed[j])) # k]]

\* the first listed version whose name matches case-insensitively, or None
RECURSIVE find_version(_, _)
find_version(listed, name) ==
    IF listed = <<>> THEN None
    ELSE IF lower(strip(Head(listed))) = lower(strip(name)) THEN Head(listed)
         ELSE find_version(Tail(listed), name)

\* An uncaught exception (or SystemExit with a message): traceback, status 1
Abort(tag) ==
    /\ pc' = "exited"
    /\ exit_code' = 1
    /\ out' = Append(out, Line(tag))

-----------------------------------------------------------------------------
(* ColumnUpdater.main *)

importer == << no_wipe, start_at, issues, created, pending_links, current_parent,
              t_issues, page_cap >>
inputs   == << prog, dry_run, rows, env_ok, csv_ok, max_arg, direction, importer,
              processed, runner >>
caches   == << user_cache, version_cache, component_cache >>
tracker  == << t_components, t_versions >>
counters == << updated, linked, skipped >>
rowvars  == << key, summary, fields, todo >>

row == rows[idx]

\* ap.error(...) when a credential is missing, else Jira(...)
CU_Preflight ==
    /\ prog = "ColumnUpdater" /\ pc = "start"
    /\ IF env_ok
       THEN pc' = "get_project" /\ UNCHANGED << exit_code, out >>
       ELSE pc' = "exited" /\ exit_code' = 2 /\ out' = Append(out, Line("usage"))
    /\ UNCHANGED << inputs, caches, tracker, counters, rowvars, idx, calls >>

\* project = jira.get_project_meta(args.project_key)
CU_GetProject ==
    /\ prog = "ColumnUpdater" /\ pc = "get_project"
    /\ \E ok \in OkAnswers("get_project", <<>>, 1) :
        /\ calls' = Append(calls, Call("get_project", <<>>, <<>>, ok))
        /\ IF ok THEN pc' = "read_csv" /\ UNCHANGED << exit_code, out >>
           ELSE Abort("RuntimeError")
    /\ UNCHANGED << inputs, caches, tracker, counters, rowvars, idx >>

\* with open(args.csv) ...: rows = list(reader)
CU_ReadCsv ==
    /\ prog = "ColumnUpdater" /\ pc = "read_csv"
    /\ IF csv_ok
       THEN pc' = "loop" /\ idx' = 1 /\ UNCHANGED << exit_code, out >>
       ELSE Abort("OSError") /\ UNCHANGED idx
    /\ UNCHANGED << inputs, caches, tracker, counters, rowvars, calls >>

\* continue / end of the loop body: on to the next row
next_row == idx' = idx + 1 /\ pc' = "loop"

\* (mutant) the skipped row is reported but not counted
skip_row_uncounted ==
    /\ out' = Append(out, Line("SKIP"))
    /\ UNCHANGED skipped
    /\ next_row

\* print(f"[{i}] SKIP: ..."); skipped += 1; continue
skip_row ==
    /\ out' = Append(out, Line("SKIP"))
    /\ skipped' = skipped + 1
    /\ next_row

\* (mutant) --max is read but never checked
max_unchecked == FALSE

\* if args.max and updated >= args.max: break
max_reached == max_arg # 0 /\ updated >= max_arg

\* the head of the row loop, down to the choice between skip, search and build
CU_RowStart ==
    /\ prog = "ColumnUpdater" /\ pc = "loop"
    /\ IF idx > Len(rows) \/ max_reached
       THEN /\ pc' = "summary"
            /\ UNCHANGED << idx, key, summary, skipped, out >>
       ELSE LET k == strip(row.IssueKey)
                s == strip(row.Summary)
            IN  /\ summary' = s
                /\ IF k # <<>>
                   THEN /\ key' = k /\ pc' = "bf_components"
                        /\ UNCHANGED << idx, skipped, out >>
                   ELSE IF s = <<>>
                   THEN /\ skip_row
                        /\ key' = k
                   ELSE /\ key' = k /\ pc' = "search"
                        /\ UNCHANGED << idx, skipped, out >>
    /\ fields' = EmptyDict
    /\ UNCHANGED << inputs, caches, tracker, updated, linked, todo, calls, exit_code >>

\* match = jira.search_issue_by_summary(...): the request raised
search_raised ==
    /\ Abort("RuntimeError")
    /\ UNCHANGED << idx, key, skipped >>

\* match = jira.search_issue_by_summary(args.project_key, summary)
CU_Search ==
    /\ prog = "ColumnUpdater" /\ pc = "search"
    /\ \E resp \in SearchAnswers(summary) :
        /\ calls' = Append(calls, Call("search", summary, resp.issues, resp.ok))
        /\ IF ~resp.ok THEN search_raised
           ELSE LET match == search_issue_by_summary(resp.issues, summary)
                IN  IF match = None
                    THEN /\ skip_row
                         /\ UNCHANGED << key, exit_code >>
                    ELSE /\ key' = match /\ pc' = "bf_components"
                         /\ UNCHANGED << idx, skipped, out, exit_code >>
    /\ UNCHANGED << inputs, caches, tracker, updated, linked, summary, fields, todo >>

-----------------------------------------------------------------------------
(* build_fields: the steps that reach the tracker *)

\* a request of build_fields raised: nothing catches it in main
build_raised ==
    /\ Abort("RuntimeError")
    /\ UNCHANGED idx

\* fields[name].append(v)
fields_append(name, v) == [fields EXCEPT ![name] = Append(@, v)]

\* labels = row.get("Labels"); if isinstance(labels, str) and labels.strip():
\* fields["labels"] = [x.strip() for x in labels.split(",") if x.strip()]
labels_field(f) ==
    IF strip(row.Labels) # <<>> THEN dict_set(f, "labels", split_list(row.Labels))
    ELSE f

\* build_fields down to the components: the labels, then
\* comps = row.get("Components") ... comp_map = jira.list_project_components(...)
CU_ListComponents ==
    /\ prog = "ColumnUpdater" /\ pc = "bf_components"
    /\ IF strip(row.Components) = <<>>
       THEN /\ pc' = "bf_versions"
            /\ fields' = labels_field(fields)
            /\ UNCHANGED << todo, component_cache, calls, exit_code, out, idx >>
       ELSE IF ProjectId \in DOMAIN component_cache
       THEN /\ fields' = dict_set(labels_field(fields), "components", <<>>)
            /\ todo' = split_list(row.Components)
            /\ pc' = "bf_component"
            /\ UNCHANGED << component_cache, calls, exit_code, out, idx >>
       ELSE \E ok \in OkAnswers("list_components", ProjectId, 1) :
            /\ calls' = Append(calls, Call("list_components", ProjectId, <<>>, ok))
            /\ IF ok
               THEN /\ component_cache' =
                          dict_set(component_cache, ProjectId, components_dict(t_components))
                    /\ fields' = dict_set(labels_field(fields), "components", <<>>)
                    /\ todo' = split_list(row.Components)
                    /\ pc' = "bf_component"
                    /\ UNCHANGED << exit_code, out, idx >>
               ELSE /\ build_raised
                    /\ UNCHANGED << component_cache, fields, todo >>
    /\ UNCHANGED << inputs, user_cache, version_cache, tracker, counters, key, summary >>

\* (mutant) the created component is not stored in comp_map
component_not_cached(name) == UNCHANGED component_cache

\* comp_map[name.lower()] = created   (comp_map is the cached dict itself)
component_created(name) ==
    component_cache' =
        [component_cache EXCEPT ![ProjectId] = dict_set(@, lower(name), name)]

\* one turn of: for name in [...]: c = comp_map.get(name.lower()) ...
CU_Component ==
    /\ prog = "ColumnUpdater" /\ pc = "bf_component"
    /\ IF todo = <<>>
       THEN /\ pc' = "bf_versions"
            /\ UNCHANGED << fields, todo, component_cache, t_components, calls,
                            exit_code, out, idx >>
       ELSE LET name == Head(todo)
                c == dict_get(component_cache[ProjectId], lower(name))
            IN  IF c # None
                THEN /\ fields' = fields_append("components", c)
                     /\ todo' = Tail(todo)
                     /\ UNCHANGED << pc, component_cache, t_components, calls,
                                     exit_code, out, idx >>
                ELSE \E ok \in OkAnswers("create_component", name, 1) :
                     /\ calls' = Append(calls, Call("create_component", name, ProjectId, ok))
                     /\ IF ok
                        THEN /\ t_components' = Append(t_components, name)
                             /\ component_created(name)
                             /\ fields' = fields_append("components", name)
                             /\ todo' = Tail(todo)
                             /\ UNCHANGED << pc, exit_code, out, idx >>
                        ELSE /\ build_raised
                             /\ UNCHANGED << fields, todo, component_cache, t_components >>
    /\ UNCHANGED << inputs, user_cache, version_cache, t_versions, counters, key, summary >>

\* vers = row.get("FixVersions") ... fields["fixVersions"] = []
CU_FixVersions ==
    /\ prog = "ColumnUpdater" /\ pc = "bf_versions"
    /\ IF strip(row.FixVersions) = <<>>
       THEN pc' = "bf_assignee" /\ UNCHANGED << fields, todo >>
       ELSE /\ fields' = dict_set(fields, "fixVersions", <<>>)
            /\ todo' = split_list(row.FixVersions)
            /\ pc' = "bf_version"
    /\ UNCHANGED << inputs, caches, tracker, counters, key, summary, idx, calls,
                    exit_code, out >>

\* (mutant) get_or_create_version returns the version without caching it
version_not_cached(vc, name, v) == version_cache' = vc

\* self.version_cache[project_id][name] = v
version_cached(vc, name, v) ==
    version_cache' = [vc EXCEPT ![ProjectId] = dict_set(@, name, v)]

\* one turn of: for vname in [...]: v = jira.get_or_create_version(project_id, vname)
CU_Version ==
    /\ prog = "ColumnUpdater" /\ pc = "bf_version"
    /\ IF todo = <<>>
       THEN /\ pc' = "bf_assignee"
            /\ UNCHANGED << fields, todo, version_cache, t_versions, calls,
                            exit_code, out, idx >>
       ELSE LET name == Head(todo)
                vc == IF ProjectId \in DOMAIN version_cache THEN version_cache
                      ELSE dict_set(version_cache, ProjectId, EmptyDict)
            IN  IF name \in DOMAIN vc[ProjectId]
                THEN /\ fields' = fields_append("fixVersions", vc[ProjectId][name])
                     /\ todo' = Tail(todo)
                     /\ version_cache' = vc
                     /\ UNCHANGED << pc, t_versions, calls, exit_code, out, idx >>
                ELSE \E listed \in OkAnswers("list_versions", ProjectId, 1),
                        made \in BOOLEAN :
                     LET lst == Call("list_versions", ProjectId, name, listed)
                         found == find_version(t_versions, name)
                     IN  IF ~listed
                         THEN /\ made
                              /\ calls' = Append(calls, lst)
                              /\ version_cache' = vc
                              /\ build_raised
                              /\ UNCHANGED << fields, todo, t_versions >>
                         ELSE IF found # None
                         THEN /\ made
                              /\ calls' = Append(calls, lst)
                              /\ version_cached(vc, name, found)
                              /\ fields' = fields_append("fixVersions", found)
                              /\ todo' = Tail(todo)
                              /\ UNCHANGED << pc, t_versions, exit_code, out, idx >>
                         ELSE /\ made \in OkAnswers("create_version", name, 2)
                              /\ calls' = calls \o
                                   << lst, Call("create_version", name, ProjectId, made) >>
                              /\ IF made
                                 THEN /\ t_versions' = Append(t_versions, name)
                                      /\ version_cached(vc, name, name)
                                      /\ fields' = fields_append("fixVersions", name)
                                      /\ todo' = Tail(todo)
                                      /\ UNCHANGED << pc, exit_code, out, idx >>
                                 ELSE /\ version_cache' = vc
                                      /\ build_raised
                                      /\ UNCHANGED << fields, todo, t_versions >>
    /\ UNCHANGED << inputs, user_cache, component_cache, t_components, counters,
                    key, summary >>

\* ass_email = row.get("AssigneeEmail") ... acct = jira.resolve_user_account_id(...)
CU_Assignee ==
    /\ prog = "ColumnUpdater" /\ pc = "bf_assignee"
    /\ LET email == strip(row.AssigneeEmail)
       IN  IF email = <<>>
           THEN /\ pc' = "update"
                /\ UNCHANGED << fields, user_cache, calls, exit_code, out, idx >>
           ELSE IF email \in DOMAIN user_cache
           THEN /\ fields' = IF user_cache[email] # None
                             THEN dict_set(fields, "assignee", user_cache[email])
                             ELSE fields
                /\ pc' = "update"
                /\ UNCHANGED << user_cache, calls, exit_code, out, idx >>
           ELSE \E resp \in UserAnswers(email) :
                LET acct == IF resp.users # <<>> THEN resp.users[1] ELSE None
                IN  /\ calls' = Append(calls, Call("user_search", email, resp.users, resp.ok))
                    /\ IF resp.ok
                       THEN /\ user_cache' = dict_set(user_cache, email, acct)
                            /\ fields' = IF acct # None
                                         THEN dict_set(fields, "assignee", acct)
                                         ELSE fields
                            /\ pc' = "update"
                            /\ UNCHANGED << exit_code, out, idx >>
                       ELSE /\ build_raised
                            /\ UNCHANGED << fields, user_cache >>
    /\ UNCHANGED << inputs, version_cache, component_cache, tracker, counters,
                    key, summary, todo >>

-----------------------------------------------------------------------------
(* ColumnUpdater.main: update, links, summary *)

\* deps = [...] of the row whose update was just attempted; then the link loop
to_links ==
    /\ todo' = IF strip(row.Dependencies) # <<>>
               THEN split_list(row.Dependencies) ELSE <<>>
    /\ pc' = "links"

\* (mutant) update_issue_fields returns early when no field carries a value
CU_Update_skips_empty_delta ==
    /\ prog = "ColumnUpdater" /\ pc = "update"
    /\ IF \A n \in DOMAIN fields : fields[n] = <<>>
       THEN /\ updated' = updated + 1
            /\ todo' = IF strip(rows[idx].Dependencies) # <<>>
                       THEN split_list(rows[idx].Dependencies) ELSE <<>>
            /\ pc' = "links"
            /\ UNCHANGED << calls, out, exit_code >>
       ELSE \E ok \in BOOLEAN :
            /\ calls' = Append(calls, IF dry_run THEN Echo("update_issue", key, fields)
                                      ELSE Call("update_issue", key, fields, ok))
            /\ IF ok \/ dry_run
               THEN /\ updated' = updated + 1
                    /\ todo' = IF strip(rows[idx].Dependencies) # <<>>
                               THEN split_list(rows[idx].Dependencies) ELSE <<>>
                    /\ pc' = "links"
                    /\ UNCHANGED << out, exit_code >>
               ELSE /\ out' = Append(out, Line("ERROR updating"))
                    /\ todo' = IF strip(rows[idx].Dependencies) # <<>>
                               THEN split_list(rows[idx].Dependencies) ELSE <<>>
                    /\ pc' = "links"
                    /\ UNCHANGED << updated, exit_code >>
    /\ UNCHANGED << inputs, caches, tracker, linked, skipped, key, summary, fields, idx >>

\* (mutant) the update's exception is not caught in main
update_except_uncaught ==
    /\ Abort("RuntimeError")
    /\ UNCHANGED << updated, todo >>

\* (mutant) updated += 1 stands before the request: a failed update is counted
update_except_counted ==
    /\ out' = Append(out, Line("ERROR updating"))
    /\ updated' = updated + 1
    /\ todo' = IF strip(rows[idx].Dependencies) # <<>>
               THEN split_list(rows[idx].Dependencies) ELSE <<>>
    /\ pc' = "links"
    /\ UNCHANGED exit_code

\* (mutant) a failed update ends the row: its dependencies are not linked
update_except_drops_links ==
    /\ out' = Append(out, Line("ERROR updating"))
    /\ todo' = <<>>
    /\ pc' = "links"
    /\ UNCHANGED << updated, exit_code >>

\* except Exception as e: print(f"[{i}] ERROR updating {key}: {e}")
update_except ==
    /\ out' = Append(out, Line("ERROR updating"))
    /\ to_links
    /\ UNCHANGED << updated, exit_code >>

\* jira.update_issue_fields(key, fields, dry_run=args.dry_run); updated += 1
CU_Update ==
    /\ prog = "ColumnUpdater" /\ pc = "update"
    /\ IF dry_run
       THEN /\ calls' = Append(calls, Echo("update_issue", key, fields))
            /\ updated' = updated + 1
            /\ to_links
            /\ UNCHANGED << out, exit_code >>
       ELSE \E ok \in BOOLEAN :
            /\ calls' = Append(calls, Call("update_issue", key, fields, ok))
            /\ IF ok
               THEN /\ updated' = updated + 1
                    /\ to_links
                    /\ UNCHANGED << out, exit_code >>
               ELSE update_except
    /\ UNCHANGED << inputs, caches, tracker, linked, skipped, key, summary, fields, idx >>

\* the link the row asks for: (inwardIssue, outwardIssue)
link_ends(dep) ==
    IF direction = "blocked_by" THEN << key, dep >> ELSE << dep, key >>

\* (mutant) linked += 1 stands before the call: a failed link is counted
link_except_counted ==
    /\ out' = Append(out, Line("ERROR linking"))
    /\ linked' = linked + 1

\* except Exception as e: print(f"[{i}] ERROR linking {key} <-> {dep}: {e}")
link_except ==
    /\ out' = Append(out, Line("ERROR linking"))
    /\ UNCHANGED linked

\* one turn of: for dep in deps: jira.add_issue_link_is_blocked_by(...); linked += 1
CU_Link ==
    /\ prog = "ColumnUpdater" /\ pc = "links"
    /\ IF todo = <<>>
       THEN /\ next_row
            /\ UNCHANGED << todo, linked, calls, out >>
       ELSE LET ends == link_ends(Head(todo))
            IN  /\ todo' = Tail(todo)
                /\ UNCHANGED << pc, idx >>
                /\ IF dry_run
                   THEN /\ calls' = Append(calls, Echo("create_link", ends[1], ends[2]))
                        /\ linked' = linked + 1
                        /\ UNCHANGED out
                   ELSE \E ok \in BOOLEAN :
                        /\ calls' = Append(calls, Call("create_link", ends[1], ends[2], ok))
                        /\ IF ok
                           THEN linked' = linked + 1 /\ UNCHANGED out
                           ELSE link_except
    /\ UNCHANGED << inputs, caches, tracker, updated, skipped, key, summary, fields,
                    exit_code >>

\* print(f"Done. Updated: ..., Linked: ..., Skipped: ...")
CU_Summary ==
    /\ prog = "ColumnUpdater" /\ pc = "summary"
    /\ out' = Append(out, Line("Done"))
    /\ pc' = "exited"
    /\ exit_code' = 0
    /\ UNCHANGED << inputs, caches, tracker, counters, rowvars, idx, calls >>

\* the variables of Importer, in a run of another script
ImporterIdle ==
    /\ no_wipe = FALSE /\ start_at = 0 /\ issues = <<>> /\ created = EmptyDict
    /\ pending_links = <<>> /\ current_parent = None /\ t_issues = <<>>
    /\ page_cap = 0

\* the variables of DependencyUpdater, in a run of another script
DependencyUpdaterIdle == processed = 0

\* the variable of Runner, in a run of a script alone
RunnerIdle == runner = NoRunner

\* the values of --max in the model: 0 (not given, or given as 0) and MaxMaxArg
MaxArgs == {0, MaxMaxArg}

InitCU ==
    /\ prog = "ColumnUpdater"
    /\ pc = "start"
    /\ dry_run \in BOOLEAN
    /\ env_ok \in BOOLEAN
    /\ csv_ok \in BOOLEAN
    /\ rows \in SeqsUpTo(CU_RowChoices, MaxRows)
    /\ (~env_ok \/ ~csv_ok) => rows = <<>>
    /\ max_arg \in MaxArgs
    /\ direction \in {"blocked_by", "blocks"}
    /\ \E t \in TrackerChoices :
        t_components = t.components /\ t_versions = t.versions
    /\ idx = 0
    /\ calls = <<>>
    /\ out = <<>>
    /\ exit_code = -1
    /\ updated = 0 /\ linked = 0 /\ skipped = 0
    /\ key = <<>> /\ summary = <<>> /\ fields = EmptyDict /\ todo = <<>>
    /\ user_cache = EmptyDict
    /\ version_cache = EmptyDict
    /\ component_cache = EmptyDict
    /\ ImporterIdle
    /\ DependencyUpdaterIdle
    /\ RunnerIdle

NextCU ==
    \/ CU_Preflight
    \/ CU_GetProject
    \/ CU_ReadCsv
    \/ CU_RowStart
    \/ CU_Search
    \/ CU_ListComponents
    \/ CU_Component
    \/ CU_FixVersions
    \/ CU_Version
    \/ CU_Assignee
    \/ CU_Update
    \/ CU_Link
    \/ CU_Summary

SpecCU == InitCU /\ [][NextCU]_vars

-----------------------------------------------------------------------------
(* Properties of ColumnUpdater *)

Calls == 1..Len(calls)

Failed(i, ops) == calls[i].op \in ops /\ ~calls[i].ok

BuildOps == {"list_components", "create_component", "list_versions",
             "create_version", "user_search"}

\* C2: in dry-run no mutating request (issue create/update/delete, link create,
\* component create, version create) is sent to the tracker.
DryRunIssuesNoMutatingCall ==
    dry_run => \A i \in Calls : calls[i].op \in MutatingOps => ~calls[i].sent

SearchFailureSkipsRow ==
    \A i \in Calls : Failed(i, {"search"}) =>
        /\ exit_code \in {-1, 0}
        /\ skipped >= 1

\* C6: a request that fails while the field delta is built does not end the run.
BuildFailureDoesNotAbort ==
    \A i \in Calls : Failed(i, BuildOps) => exit_code \in {-1, 0}

Before(listed, op) ==
    SubSeq(listed, 1,
           Len(listed) - Cardinality({i \in Calls : calls[i].op = op /\ calls[i].ok}))

Names(listed) == {lower(strip(listed[i])) : i \in 1..Len(listed)}

\* C9: per case-insensitive component name and per case-insensitive version
\* name at most one create request is issued in a run, and none for a name the
\* project already held.
AtMostOneCreatePerName ==
    \A op \in {"create_component", "create_version"} :
        /\ \A i, j \in Calls :
              (i < j /\ calls[i].op = op /\ calls[j].op = op)
                  => lower(calls[i].a) # lower(calls[j].a)
        /\ \A i \in Calls : calls[i].op = op =>
              lower(calls[i].a) \notin
                  Names(Before(IF op = "create_component" THEN t_components
                               ELSE t_versions, op))

\* C9 witness: a component and a version were created for the first row, and
\* the second row named both again in another case; the run went through.
NameCreatedThenReused ==
    /\ prog = "ColumnUpdater" /\ pc = "exited" /\ exit_code = 0 /\ Len(rows) = 2
    /\ \A op \in {"create_component", "create_version"} :
          \E i \in Calls :
              /\ calls[i].op = op /\ calls[i].row = 1 /\ calls[i].ok
              /\ LET again == split_list(IF op = "create_component"
                                         THEN rows[2].Components
                                         ELSE rows[2].FixVersions)
                 IN  \E n \in 1..Len(again) :
                        lower(again[n]) = lower(calls[i].a) /\ again[n] # calls[i].a

-----------------------------------------------------------------------------
(* Importer: inputs *)

MAX_RETRIES == 1

max_per_page == 100

Design == <<"D", "e", "s", "i", "g", "n">>

Approval == <<"A", "p", "p", "r", "o", "v", "a", "l">>

DRY_KEY == <<"DRY-KEY">>

IM_CsvRow(s, t, d) == [Summary |-> s, IssueType |-> t, DependsOn |-> d]

IM_RowChoices ==
    { IM_CsvRow(<<"A">>, "Task", <<>>),
      IM_CsvRow(<<"B">>, "Task", <<"A">>),
      IM_CsvRow(Design, "Sub-task", <<" ", "B">>),
      IM_CsvRow(Approval, "Sub-task", <<"A", " ">>),
      IM_CsvRow(<<"E">>, "Epic", <<>>) }

\* What the project holds before the run, and the tracker's page size
IM_TrackerChoices ==
    { [issues |-> <<>>, cap |-> 1],
      [issues |-> << <<"X", 1>> >>, cap |-> 1],
      [issues |-> << <<"X", 1>>, <<"X", 2>> >>, cap |-> 1] }

Min(a, b) == IF a < b THEN a ELSE b

Last(q) == q[Len(q)]

-----------------------------------------------------------------------------
(* Importer: jira_post, jira_get, jira_delete *)

\* (mutant) the loop runs once more: a second retry
PostRunsRetryTwice(attempt) ==
    { <<"ok">>, <<"status">>,
      <<"transport", "ok">>, <<"transport", "status">>,
      <<"transport", "transport", "ok">>, <<"transport", "transport", "status">>,
      <<"transport", "transport", "transport">> }

\* jira_post, for attempt in range(MAX_RETRIES + 1): the answers of the
\* requests one call may make, in order.  "ok" and "status" return, "transport"
\* is retried while attempt < MAX_RETRIES and raised after that.
RECURSIVE PostRuns(_)
PostRuns(attempt) ==
    {<<"ok">>, <<"status">>} \cup
    IF attempt < MAX_RETRIES
    THEN {<<"transport">> \o r : r \in PostRuns(attempt + 1)}
    ELSE {<<"transport">>}

\* the requests of one jira_post call: for create_issue b is the key returned
\* (None when the request failed), for create_link the outward key
post_requests(op, a, b, run) ==
    [n \in 1..Len(run) |->
        Request(op, a, IF op = "create_issue" /\ run[n] # "ok" THEN None ELSE b, run[n])]

\* the key the tracker gives the next issue it creates
NewKey ==
    <<"K", 1 + Cardinality({i \in 1..Len(calls) :
                               calls[i].op = "create_issue" /\ calls[i].res = "ok"})>>

\* the page the tracker answers GET /search?startAt=..&maxResults=.. with
page(at, max_results) ==
    SubSeq(t_issues, at + 1, Min(Len(t_issues), at + Min(max_results, page_cap)))

-----------------------------------------------------------------------------
(* Importer.main *)

cu_state == << max_arg, direction, updated, linked, skipped, key, summary, fields,
               user_cache, version_cache, component_cache, t_components, t_versions,
               processed >>

im_args == << prog, dry_run, rows, env_ok, csv_ok, no_wipe, page_cap, runner >>

\* require_env(); parse_args(); rows = read_csv(args.csv); if not args.no_wipe
IM_Preflight ==
    /\ prog = "Importer" /\ pc = "start"
    /\ IF ~env_ok \/ ~csv_ok
       THEN Abort(IF ~env_ok THEN "SystemExit" ELSE "OSError") /\ UNCHANGED idx
       ELSE /\ pc' = IF no_wipe THEN "rows" ELSE "wipe_search"
            /\ idx' = IF no_wipe THEN 1 ELSE idx
            /\ UNCHANGED << exit_code, out >>
    /\ UNCHANGED << im_args, cu_state, calls, todo, start_at, issues, created,
                    pending_links, current_parent, t_issues >>

\* (mutant) search_issues returns after its first page
first_page_only(batch, total) == FALSE

\* neither break of the while loop is taken
more_pages(batch, total) == batch # <<>> /\ start_at + Len(batch) < total

\* (mutant) the next request starts a full requested page further on
next_start_by_request(batch) == start_at + max_per_page

\* start_at += len(batch)
next_start(batch) == start_at + Len(batch)

\* one turn of the while loop of search_issues; on break, wipe_project goes on
IM_SearchPage ==
    /\ prog = "Importer" /\ pc = "wipe_search"
    /\ \E res \in {"ok", "status", "transport"} :
        /\ calls' = Append(calls, Request("search_issues", start_at, max_per_page, res))
        /\ IF res # "ok"
           THEN /\ Abort(IF res = "status" THEN "SystemExit" ELSE "RequestException")
                /\ UNCHANGED << start_at, issues, todo, idx >>
           ELSE LET batch == page(start_at, max_per_page)
                    total == Len(t_issues)
                    all   == issues \o batch
                IN  /\ issues' = all
                    /\ IF more_pages(batch, total)
                       THEN /\ start_at' = next_start(batch)
                            /\ UNCHANGED << pc, todo, idx, out >>
                       ELSE /\ UNCHANGED start_at
                            /\ IF all = <<>>
                               THEN /\ out' = Append(out, Line("No issues found"))
                                    /\ pc' = "rows" /\ idx' = 1
                                    /\ UNCHANGED todo
                               ELSE /\ pc' = "wipe_delete" /\ todo' = all
                                    /\ UNCHANGED << idx, out >>
                    /\ UNCHANGED exit_code
    /\ UNCHANGED << im_args, cu_state, created, pending_links, current_parent, t_issues >>

\* one turn of: for i, issue in enumerate(issues, 1): code = jira_delete(...)
IM_Delete ==
    /\ prog = "Importer" /\ pc = "wipe_delete"
    /\ IF todo = <<>>
       THEN /\ out' = Append(out, Line("Wipe complete"))
            /\ pc' = "rows" /\ idx' = 1
            /\ UNCHANGED << todo, calls, t_issues, exit_code >>
       ELSE LET k == Head(todo)
            IN  IF dry_run
                THEN /\ calls' = Append(calls, Echo("delete_issue", k, <<>>))
                     /\ todo' = Tail(todo)
                     /\ UNCHANGED << pc, idx, out, t_issues, exit_code >>
                ELSE \E res \in {"ok", "status", "transport"} :
                     /\ calls' = Append(calls, Request("delete_issue", k, <<>>, res))
                     /\ IF res = "transport"
                        THEN /\ Abort("RequestException")
                             /\ UNCHANGED << todo, idx, t_issues >>
                        ELSE /\ todo' = Tail(todo)
                             /\ t_issues' = IF res = "ok"
                                            THEN SelectSeq(t_issues, LAMBDA x : x # k)
                                            ELSE t_issues
                             /\ out' = IF res = "status"
                                       THEN Append(out, Line("Jira DELETE error"))
                                       ELSE out
                             /\ UNCHANGED << pc, idx, exit_code >>
    /\ UNCHANGED << im_args, cu_state, start_at, issues, created, pending_links,
                    current_parent >>

\* (mutant) a name that resolves to nothing falls back on the parent task
resolve_or_parent(c, dep) ==
    IF dict_get(c, dep) # None THEN dict_get(c, dep) ELSE dict_get(c, current_parent)

\* created.get(depends_on) or created.get(f"{depends_on}:Design") or
\* created.get(f"{depends_on}:Approval")
resolve_dependency(c, dep) ==
    IF dict_get(c, dep) # None THEN dict_get(c, dep)
    ELSE IF dict_get(c, dep \o <<":">> \o Design) # None
    THEN dict_get(c, dep \o <<":">> \o Design)
    ELSE dict_get(c, dep \o <<":">> \o Approval)

\* (mutant) the link is requested as soon as the dependency is resolved
link_at_once(dep_key, k) ==
    [pending |-> <<>>, sent |-> << Request("create_link", dep_key, k, "ok") >>]

\* pending_links.append((dep_key, key)): nothing is sent in the row loop
defer_link(dep_key, k) ==
    [pending |-> << <<dep_key, k>> >>, sent |-> <<>>]

\* (mutant) a row whose issue could not be created is passed over
create_failed_row_skipped(res) ==
    /\ out' = Append(out, Line("create failed"))
    /\ idx' = idx + 1
    /\ UNCHANGED << pc, exit_code, created, pending_links, current_parent >>

\* if not key: raise SystemExit(...), or the exception jira_post re-raised
create_failed(res) ==
    /\ Abort(IF res = "status" THEN "SystemExit" ELSE "RequestException")
    /\ UNCHANGED << idx, created, pending_links, current_parent >>

\* the rest of the row after create_issue returned key k; reqs are its requests
row_created(r, k, reqs) ==
    /\ idx' = idx + 1
    /\ UNCHANGED << pc, exit_code >>
    /\ IF r.IssueType = "Task"
       THEN /\ created' = dict_set(created, r.Summary, k)
            /\ current_parent' = r.Summary
            /\ calls' = calls \o reqs
            /\ UNCHANGED << pending_links, out >>
       ELSE LET c == dict_set(created, current_parent \o <<":">> \o r.Summary, k)
                depends_on == strip(r.DependsOn)
                dep_key == resolve_dependency(c, depends_on)
                link == defer_link(dep_key, k)
            IN  /\ created' = c
                /\ UNCHANGED current_parent
                /\ IF depends_on = <<>>
                   THEN calls' = calls \o reqs /\ UNCHANGED << pending_links, out >>
                   ELSE IF dep_key # None
                   THEN /\ pending_links' = pending_links \o link.pending
                        /\ calls' = calls \o reqs \o link.sent
                        /\ UNCHANGED out
                   ELSE /\ out' = Append(out, Line("Warning"))
                        /\ calls' = calls \o reqs
                        /\ UNCHANGED pending_links

\* key = create_issue(fields, dry_run=args.dry_run) and what follows in the row
create_issue(r, parent) ==
    LET f == [summary |-> r.Summary, issuetype |-> r.IssueType, parent |-> parent]
    IN  IF dry_run
        THEN row_created(r, DRY_KEY, << Echo("create_issue", f, DRY_KEY) >>)
        ELSE \E run \in PostRuns(0) :
             LET reqs == post_requests("create_issue", f, NewKey, run)
             IN  IF Last(run) = "ok"
                 THEN row_created(r, NewKey, reqs)
                 ELSE /\ calls' = calls \o reqs
                      /\ create_failed(Last(run))

\* (mutant) the parent is the first Task of the CSV
first_task_parent ==
    created[rows[CHOOSE q \in 1..Len(rows) :
                    /\ rows[q].IssueType = "Task"
                    /\ \A p \in 1..(q - 1) : rows[p].IssueType # "Task"].Summary]

\* "parent": {"key": created[current_parent]}
parent_key == created[current_parent]

\* one turn of: for idx, row in enumerate(rows, 1)
IM_Row ==
    /\ prog = "Importer" /\ pc = "rows"
    /\ IF idx > Len(rows)
       THEN /\ pc' = "links"
            /\ todo' = pending_links
            /\ UNCHANGED << idx, calls, out, exit_code, created, pending_links,
                            current_parent >>
       ELSE /\ UNCHANGED todo
            /\ IF row.IssueType = "Task"
               THEN create_issue(row, None)
               ELSE IF row.IssueType = "Sub-task"
               THEN IF current_parent \in {None, <<>>}
                       \/ current_parent \notin DOMAIN created
                    THEN /\ Abort("SystemExit")
                         /\ UNCHANGED << idx, calls, created, pending_links,
                                         current_parent >>
                    ELSE create_issue(row, parent_key)
               ELSE /\ idx' = idx + 1
                    /\ UNCHANGED << pc, calls, out, exit_code, created, pending_links,
                                    current_parent >>
    /\ UNCHANGED << im_args, cu_state, start_at, issues, t_issues >>

\* one turn of: for dep_key, tgt_key in pending_links: link_issue(dep_key, tgt_key)
IM_Link ==
    /\ prog = "Importer" /\ pc = "links"
    /\ IF todo = <<>>
       THEN pc' = "finish" /\ UNCHANGED << todo, calls, out, exit_code >>
       ELSE LET dep_key == Head(todo)[1]
                tgt_key == Head(todo)[2]
            IN  IF dry_run
                THEN /\ calls' = Append(calls, Echo("create_link", dep_key, tgt_key))
                     /\ todo' = Tail(todo)
                     /\ UNCHANGED << pc, out, exit_code >>
                ELSE \E run \in PostRuns(0) :
                     /\ calls' = calls \o post_requests("create_link", dep_key, tgt_key, run)
                     /\ IF Last(run) = "transport"
                        THEN Abort("RequestException") /\ UNCHANGED todo
                        ELSE /\ todo' = Tail(todo)
                             /\ out' = IF Last(run) = "status"
                                       THEN Append(out, Line("Jira POST error"))
                                       ELSE out
                             /\ UNCHANGED << pc, exit_code >>
    /\ UNCHANGED << im_args, cu_state, idx, start_at, issues, created, pending_links,
                    current_parent, t_issues >>

\* print("Import complete.")
IM_Finish ==
    /\ prog = "Importer" /\ pc = "finish"
    /\ out' = Append(out, Line("Import complete"))
    /\ pc' = "exited"
    /\ exit_code' = 0
    /\ UNCHANGED << im_args, cu_state, idx, calls, todo, start_at, issues, created,
                    pending_links, current_parent, t_issues >>

\* the variables of ColumnUpdater, in a run of another script
ColumnUpdaterIdle ==
    /\ max_arg = 0 /\ direction = "blocked_by"
    /\ updated = 0 /\ linked = 0 /\ skipped = 0
    /\ key = <<>> /\ summary = <<>> /\ fields = EmptyDict
    /\ user_cache = EmptyDict /\ version_cache = EmptyDict
    /\ component_cache = EmptyDict
    /\ t_components = <<>> /\ t_versions = <<>>

InitImp ==
    /\ prog = "Importer"
    /\ pc = "start"
    /\ dry_run \in BOOLEAN
    /\ no_wipe \in BOOLEAN
    /\ env_ok \in BOOLEAN
    /\ csv_ok \in BOOLEAN
    /\ rows \in SeqsUpTo(IM_RowChoices, MaxImpRows)
    /\ (~env_ok \/ ~csv_ok) => rows = <<>>
    /\ \E t \in IM_TrackerChoices : t_issues = t.issues /\ page_cap = t.cap
    /\ no_wipe => t_issues = <<>>
    /\ idx = 0 /\ calls = <<>> /\ out = <<>> /\ exit_code = -1 /\ todo = <<>>
    /\ start_at = 0 /\ issues = <<>>
    /\ created = EmptyDict /\ pending_links = <<>> /\ current_parent = None
    /\ ColumnUpdaterIdle
    /\ DependencyUpdaterIdle
    /\ RunnerIdle

NextImp ==
    \/ IM_Preflight
    \/ IM_SearchPage
    \/ IM_Delete
    \/ IM_Row
    \/ IM_Link
    \/ IM_Finish

SpecImp == InitImp /\ [][NextImp]_vars

-----------------------------------------------------------------------------
(* Properties of Importer *)

\* the last request of a create_issue call that returned no key or raised
FinalCreateFailure(i) ==
    /\ calls[i].op = "create_issue" /\ ~calls[i].ok
    /\ ~( /\ i < Len(calls)
          /\ calls[i + 1].op = "create_issue"
          /\ calls[i + 1].row = calls[i].row )

\* C1: no link call is made before the row loop has finished: when a link call
\* is in the log, every row has been visited, every Task and Sub-task row has
\* had its create call before it, no create call follows it, and its two keys
\* are a pair of pending_links.
LinksOnlyAfterRowLoop ==
    \A i \in Calls : calls[i].op = "create_link" =>
        /\ idx > Len(rows)
        /\ pc \in {"links", "finish", "exited"}
        /\ \A j \in Calls : calls[j].op = "create_issue" => j < i
        /\ \A r \in 1..Len(rows) :
              rows[r].IssueType \in {"Task", "Sub-task"} =>
                  \E j \in 1..(i - 1) :
                      calls[j].op = "create_issue" /\ calls[j].row = r
        /\ \E n \in 1..Len(pending_links) :
              pending_links[n] = << calls[i].a, calls[i].b >>

\* C1 witness: a link was sent whose dependency had been resolved at a row
\* before the last one, and the last row's issue was created before the link.
LinkSentAfterLastRow ==
    \E i, j, l \in Calls :
        /\ calls[i].op = "create_link" /\ calls[i].sent
        /\ calls[j].op = "create_issue" /\ calls[j].ok
        /\ calls[j].b = calls[i].b /\ calls[j].row < Len(rows)
        /\ calls[l].op = "create_issue" /\ calls[l].row = Len(rows) /\ l < i

KeyOfRow(r) ==
    calls[CHOOSE i \in Calls :
              calls[i].op = "create_issue" /\ calls[i].row = r /\ calls[i].ok].b

\* C8: when every create succeeded, each Sub-task whose Depends-on names the
\* (one) Task row of that summary has had a link call between the two issues,
\* wherever that Task row stands in the CSV.
DependencyLinkedInAnyRowOrder ==
    (prog = "Importer" /\ pc = "exited" /\ exit_code = 0 /\ ~dry_run) =>
        \A r, r2 \in 1..Len(rows) :
            ( /\ rows[r].IssueType = "Sub-task"
              /\ rows[r2].IssueType = "Task"
              /\ strip(rows[r].DependsOn) = rows[r2].Summary
              /\ \A r3 \in 1..Len(rows) :
                    rows[r3].Summary = rows[r2].Summary => r3 = r2 )
            => \E i \in Calls :
                  /\ calls[i].op = "create_link"
                  /\ {calls[i].a, calls[i].b} = {KeyOfRow(r), KeyOfRow(r2)}

-----------------------------------------------------------------------------
(* Jira.search_issue_by_summary on its own: every result set of up to
   MaxResults issues, every query *)

\* "maxResults": 5
MaxResults == 5

SummaryChoices == { <<"S">>, <<" ", "s">>, <<"S", " ", "x">> }

QueryChoices == { <<"S">>, <<"s", " ">>, <<"x">> }

\* the tracker's answers: issue n of the result set has key <<"K", n>>
ResultSets ==
    { [n \in 1..Len(ss) |-> Issue(<<"K", n>>, ss[n])] :
        ss \in SeqsUpTo(SummaryChoices, MaxResults) }

InitSearch ==
    /\ prog = "search_issue_by_summary"
    /\ pc = "call"
    /\ issues \in ResultSets
    /\ summary \in QueryChoices
    /\ key = <<>>
    /\ dry_run = FALSE /\ rows = <<>> /\ idx = 0 /\ calls = <<>> /\ out = <<>>
    /\ exit_code = -1 /\ env_ok = TRUE /\ csv_ok = TRUE /\ todo = <<>>
    /\ max_arg = 0 /\ direction = "blocked_by"
    /\ updated = 0 /\ linked = 0 /\ skipped = 0 /\ fields = EmptyDict
    /\ user_cache = EmptyDict /\ version_cache = EmptyDict
    /\ component_cache = EmptyDict
    /\ t_components = <<>> /\ t_versions = <<>>
    /\ no_wipe = FALSE /\ start_at = 0 /\ created = EmptyDict
    /\ pending_links = <<>> /\ current_parent = None /\ t_issues = <<>>
    /\ page_cap = 0 /\ processed = 0
    /\ RunnerIdle

\* return of search_issue_by_summary(project_key, summary), issues being r.json()["issues"]
SearchReturn ==
    /\ prog = "search_issue_by_summary" /\ pc = "call"
    /\ key' = search_issue_by_summary(issues, summary)
    /\ pc' = "returned"
    /\ UNCHANGED << prog, dry_run, rows, idx, calls, out, exit_code, env_ok, csv_ok,
                    max_arg, direction, updated, linked, skipped, summary, fields,
                    todo, user_cache, version_cache, component_cache,
                    t_components, t_versions, no_wipe, start_at, issues, created,
                    pending_links, current_parent, t_issues, page_cap, processed,
                    runner >>

NextSearch == SearchReturn

SpecSearch == InitSearch /\ [][NextSearch]_vars

\* the positions of the result set whose summary equals the query after
\* trimming and case-folding
ExactAt == { n \in 1..Len(issues) : lower(strip(issues[n].summary)) = lower(strip(summary)) }

\* C10: the key returned is that of the first exact match wherever it stands;
\* without an exact match that of the first result; None for an empty set.
SearchPrefersExactMatch ==
    (prog = "search_issue_by_summary" /\ pc = "returned") =>
        IF ExactAt # {}
        THEN key = issues[CHOOSE n \in ExactAt : \A m \in ExactAt : n <= m].key
        ELSE IF issues # <<>> THEN key = issues[1].key
        ELSE key = None

\* C10 witness: a full result set whose only exact match is its last entry,
\* and that entry's key was returned.
ExactMatchInLastPlaceReturned ==
    /\ prog = "search_issue_by_summary" /\ pc = "returned"
    /\ Len(issues) = MaxResults
    /\ ExactAt = {MaxResults}
    /\ key = issues[MaxResults].key

-----------------------------------------------------------------------------
(* DependencyUpdater.main *)

du_rest == << dry_run, rows, env_ok, csv_ok, max_arg, direction, updated, skipped,
              key, summary, fields, todo, user_cache, version_cache,
              component_cache, t_components, t_versions, importer, runner >>

\* jira = Jira(args.jira_url, ...) (rstrip of a missing URL raises); read the CSV
DU_Preflight ==
    /\ prog = "DependencyUpdater" /\ pc = "start"
    /\ IF ~env_ok \/ ~csv_ok
       THEN Abort(IF ~env_ok THEN "AttributeError" ELSE "OSError") /\ UNCHANGED idx
       ELSE pc' = "loop" /\ idx' = 1 /\ UNCHANGED << exit_code, out >>
    /\ UNCHANGED << prog, du_rest, calls, linked, processed >>

\* src_key = src_results['issues'][0]['key'], None for the IndexError
first_key(resp) == IF resp.issues # <<>> THEN resp.issues[1].key ELSE None

\* one turn of: for r in rows
DU_Row ==
    /\ prog = "DependencyUpdater" /\ pc = "loop"
    /\ IF idx > Len(rows)
       THEN /\ pc' = "summary"
            /\ UNCHANGED << idx, calls, out, exit_code, linked, processed >>
       ELSE LET src_sum == row.Summary
                dep_sum == row.DependsOn
            IN  IF dep_sum = <<>> \/ src_sum = <<>>
                THEN /\ next_row
                     /\ UNCHANGED << calls, out, exit_code, linked, processed >>
                ELSE
                /\ processed' = processed + 1
                /\ \E src_results \in SearchResponses, dep_results \in SearchResponses,
                      ok \in BOOLEAN :
                    LET s1 == Call("search", src_sum, src_results.issues, src_results.ok)
                        s2 == Call("search", dep_sum, dep_results.issues, dep_results.ok)
                        src_key == first_key(src_results)
                        dep_key == first_key(dep_results)
                    IN  IF ~src_results.ok
                        THEN /\ dep_results.ok /\ ok
                             /\ calls' = Append(calls, s1)
                             /\ Abort("RuntimeError")
                             /\ UNCHANGED << idx, linked >>
                        ELSE IF ~dep_results.ok
                        THEN /\ ok
                             /\ calls' = calls \o << s1, s2 >>
                             /\ Abort("RuntimeError")
                             /\ UNCHANGED << idx, linked >>
                        ELSE IF src_key = None \/ dep_key = None
                        THEN /\ ok
                             /\ calls' = calls \o << s1, s2 >>
                             /\ out' = Append(out, Line("ERROR could not find keys"))
                             /\ next_row
                             /\ UNCHANGED << exit_code, linked >>
                        ELSE IF dry_run
                        THEN /\ ok
                             /\ calls' = calls \o
                                   << s1, s2, Echo("create_link", src_key, dep_key) >>
                             /\ linked' = linked + 1
                             /\ next_row
                             /\ UNCHANGED << exit_code, out >>
                        ELSE /\ calls' = calls \o
                                   << s1, s2, Call("create_link", src_key, dep_key, ok) >>
                             /\ linked' = IF ok THEN linked + 1 ELSE linked
                             /\ out' = IF ok THEN out
                                       ELSE Append(out, Line("ERROR linking"))
                             /\ next_row
                             /\ UNCHANGED exit_code
    /\ UNCHANGED << prog, du_rest >>

\* print(f"Final Summary: Processed ... linked ...")
DU_Summary ==
    /\ prog = "DependencyUpdater" /\ pc = "summary"
    /\ out' = Append(out, Line("Final Summary"))
    /\ pc' = "exited"
    /\ exit_code' = 0
    /\ UNCHANGED << prog, du_rest, idx, calls, linked, processed >>

InitDU ==
    /\ prog = "DependencyUpdater"
    /\ pc = "start"
    /\ dry_run \in BOOLEAN
    /\ env_ok \in BOOLEAN
    /\ csv_ok \in BOOLEAN
    /\ rows \in SeqsUpTo(IM_RowChoices, MaxRows)
    /\ (~env_ok \/ ~csv_ok) => rows = <<>>
    /\ idx = 0 /\ calls = <<>> /\ out = <<>> /\ exit_code = -1
    /\ processed = 0
    /\ max_arg = 0 /\ direction = "blocked_by"
    /\ updated = 0 /\ linked = 0 /\ skipped = 0
    /\ key = <<>> /\ summary = <<>> /\ fields = EmptyDict /\ todo = <<>>
    /\ user_cache = EmptyDict /\ version_cache = EmptyDict
    /\ component_cache = EmptyDict
    /\ t_components = <<>> /\ t_versions = <<>>
    /\ ImporterIdle
    /\ RunnerIdle

NextDU ==
    \/ DU_Preflight
    \/ DU_Row
    \/ DU_Summary

SpecDU == InitDU /\ [][NextDU]_vars

-----------------------------------------------------------------------------
(* Properties of ColumnUpdater: skipped rows, --max, links of a failed row *)

SkipLines == {n \in 1..Len(out) : out[n].tag = "SKIP"}

RowCalls(r) == {i \in Calls : calls[i].row = r}

NoKey(r) == strip(rows[r].IssueKey) = <<>>

NoSummary(r) == strip(rows[r].Summary) = <<>>

\* C11: a row with neither IssueKey nor Summary, and a row without IssueKey
\* whose search finds nothing, is skipped and not an error: skipped counts
\* exactly the SKIP lines, one per such row; the row gets no update and no link
\* call (no call at all without a summary, the one search otherwise); the loop
\* goes on to the next row; and a row with an IssueKey is never searched for.
SkippedNotErrored ==
    prog = "ColumnUpdater" =>
        /\ skipped = Cardinality(SkipLines)
        /\ \A n, m \in SkipLines : out[n].row = out[m].row => n = m
        /\ \A n \in SkipLines :
              /\ idx > out[n].row
              /\ NoKey(out[n].row)
              /\ Cardinality(RowCalls(out[n].row)) <= 1
              /\ \A i \in RowCalls(out[n].row) :
                    calls[i].op = "search" /\ calls[i].ok /\ calls[i].b = <<>>
        /\ \A r \in 1..Len(rows) :
              /\ (NoKey(r) /\ NoSummary(r)) =>
                    /\ RowCalls(r) = {}
                    /\ r < idx => \E n \in SkipLines : out[n].row = r
              /\ (\E i \in RowCalls(r) :
                      calls[i].op = "search" /\ calls[i].ok /\ calls[i].b = <<>>) =>
                    \E n \in SkipLines : out[n].row = r
              /\ ~NoKey(r) =>
                    /\ \A i \in RowCalls(r) : calls[i].op # "search"
                    /\ \A n \in SkipLines : out[n].row # r

\* C11 witness: the first row was skipped after a search that found nothing,
\* the second for having neither field, and the run ended with status 0.
SkippedBothWays ==
    /\ prog = "ColumnUpdater" /\ pc = "exited" /\ exit_code = 0
    /\ Len(rows) = 2 /\ skipped = 2
    /\ \E i \in RowCalls(1) : calls[i].op = "search" /\ calls[i].b = <<>>
    /\ NoKey(2) /\ NoSummary(2)

\* the update requests (sent or echoed) that succeeded at rows before row r
UpdatedBefore(r) ==
    {i \in Calls : calls[i].op = "update_issue" /\ calls[i].ok /\ calls[i].row < r}

\* C16 (as claimed): with --max N nothing is requested for a row after the N-th.
MaxLimitsRowsStarted ==
    (prog = "ColumnUpdater" /\ max_arg # 0) =>
        \A i \in Calls : calls[i].row <= max_arg

\* C16 (amended): --max N limits the rows updated, not the rows started: a row
\* is started (searched for, skipped, built, updated, linked) only while fewer
\* than N earlier rows were updated successfully, so at most N rows are
\* updated; and the loop is left early only when N rows were updated.
MaxLimitsRowsUpdated ==
    (prog = "ColumnUpdater" /\ max_arg # 0) =>
        /\ updated <= max_arg
        /\ \A i \in Calls : calls[i].row >= 1 =>
              Cardinality(UpdatedBefore(calls[i].row)) < max_arg
        /\ \A n \in SkipLines : Cardinality(UpdatedBefore(out[n].row)) < max_arg
        /\ (pc \in {"summary", "exited"} /\ exit_code # 1 /\ idx \in 1..Len(rows)) =>
              updated = max_arg

\* C16 witness: with --max 1 the update of row 1 failed and row 2 was updated.
SecondRowStartedUnderMaxOne ==
    /\ prog = "ColumnUpdater" /\ max_arg = 1 /\ updated = 1
    /\ \E i \in RowCalls(1) : Failed(i, {"update_issue"})
    /\ \E j \in RowCalls(2) : calls[j].op = "update_issue" /\ calls[j].ok

\* the link requests made for row r, in order
RowLinks(r) == SelectSeq(calls, LAMBDA c : c.op = "create_link" /\ c.row = r)

\* the dependency a link request of ColumnUpdater names
DepEnd(c) == IF direction = "blocked_by" THEN c.b ELSE c.a

\* deps of row r, as main computes them
Deps(r) ==
    IF strip(rows[r].Dependencies) # <<>> THEN split_list(rows[r].Dependencies)
    ELSE <<>>

\* C18 (as claimed): no link request is made for a row whose update failed.
NoLinkAfterFailedUpdate ==
    prog = "ColumnUpdater" =>
        \A i \in Calls : Failed(i, {"update_issue"}) =>
            \A j \in RowCalls(calls[i].row) : calls[j].op # "create_link"

\* C18 (amended): a failed update is reported and not counted, and does not
\* end the row: for every row whose update was attempted, failed or not, one
\* link request per listed dependency is made, in the order listed.
LinksWhateverTheUpdate ==
    prog = "ColumnUpdater" =>
        /\ updated = Cardinality({i \in Calls : calls[i].op = "update_issue" /\ calls[i].ok})
        /\ \A r \in 1..Len(rows) :
              (r < idx /\ \E i \in Calls :
                              calls[i].row = r /\ calls[i].op = "update_issue") =>
                  LET links == RowLinks(r)
                      deps  == Deps(r)
                  IN  /\ Len(links) = Len(deps)
                      /\ \A n \in 1..Len(deps) : DepEnd(links[n]) = deps[n]

\* C18 witness: the update of a row failed and a link of that row was made
\* after it.
LinkedAfterFailedUpdate ==
    /\ prog = "ColumnUpdater"
    /\ \E i, j \in Calls :
          /\ Failed(i, {"update_issue"})
          /\ i < j /\ calls[j].op = "create_link" /\ calls[j].ok
          /\ calls[j].row = calls[i].row

-----------------------------------------------------------------------------
(* Properties of Importer: wipe_project, retries, unresolved dependencies *)

Deletes == SelectSeq(calls, LAMBDA c : c.op = "delete_issue")

\* the keys the tracker has deleted
Deleted == {calls[i].a : i \in {j \in Calls : calls[j].op = "delete_issue" /\ calls[j].res = "ok"}}

\* C15: no delete is requested before the search has returned its last page and
\* enumerated every issue of the project; the deletes are then requested one
\* per enumerated issue, in the order enumerated; a delete answered with an
\* error status is reported and the remaining issues are still deleted.
WipeDeletesAfterEnumeration ==
    prog = "Importer" =>
        /\ \A i, j \in Calls :
              (calls[i].op = "search_issues" /\ calls[j].op = "delete_issue") => i < j
        /\ (pc = "wipe_delete" \/ Deletes # <<>>) =>
              t_issues = SelectSeq(issues, LAMBDA k : k \notin Deleted)
        /\ Len(Deletes) <= Len(issues)
        /\ \A n \in 1..Len(Deletes) : Deletes[n].a = issues[n]
        /\ (~no_wipe /\ (pc \in {"rows", "links", "finish"} \/ exit_code = 0)) =>
              Len(Deletes) = Len(issues)
        /\ Cardinality({n \in 1..Len(out) : out[n].tag = "Jira DELETE error"})
              = Cardinality({i \in Calls : calls[i].op = "delete_issue"
                                            /\ calls[i].res = "status"})
        /\ \A n \in 1..Len(Deletes) :
              (Deletes[n].res = "status" /\ n < Len(issues)) =>
                  \/ Len(Deletes) > n
                  \/ pc = "wipe_delete" /\ exit_code = -1 /\ todo # <<>>

\* C15 witness: two pages were searched, the first delete was answered with an
\* error status, the second issue was deleted all the same, and the wipe ended.
DeleteFailedSweepWentOn ==
    /\ prog = "Importer"
    /\ Len(SelectSeq(calls, LAMBDA c : c.op = "search_issues")) = 2
    /\ Len(Deletes) = 2
    /\ Deletes[1].res = "status" /\ Deletes[2].res = "ok"
    /\ \E n \in 1..Len(out) : out[n].tag = "Wipe complete"

PostOps == {"create_issue", "create_link"}

\* requests i and j belong to the same call of the client
SameCall(i, j) ==
    /\ calls[i].op = calls[j].op /\ calls[i].row = calls[j].row
    /\ calls[i].a = calls[j].a
    /\ calls[i].op = "create_link" => calls[i].b = calls[j].b

\* request i repeats the request before it
IsRetry(i) == i > 1 /\ calls[i].sent /\ calls[i - 1].sent /\ SameCall(i - 1, i)

\* C14 (as claimed): only issue creation is ever retried.
RetryOnlyOnCreate ==
    prog = "Importer" => \A i \in Calls : IsRetry(i) => calls[i].op = "create_issue"

\* C14 (amended): a request is repeated at most once, only after a transport
\* failure and only when it is a POST (issue creation or link creation); a
\* POST that fails in transport is retried at once and raises when the retry
\* fails too; an error status is never retried; a search or delete that fails
\* in transport raises without a retry.
PostRetriedOnceOnTransport ==
    prog = "Importer" =>
        \A i \in Calls :
            /\ IsRetry(i) =>
                  /\ calls[i].op \in PostOps
                  /\ calls[i - 1].res = "transport"
                  /\ ~IsRetry(i - 1)
            /\ (calls[i].res = "transport" /\ calls[i].op \in PostOps /\ ~IsRetry(i)) =>
                  i < Len(calls) /\ IsRetry(i + 1)
            /\ (calls[i].res = "transport" /\ (IsRetry(i) \/ calls[i].op \notin PostOps)) =>
                  i = Len(calls) /\ pc = "exited" /\ exit_code = 1
            /\ (calls[i].res = "status" /\ i < Len(calls)) => ~IsRetry(i + 1)

\* C14 witness: a link request failed in transport and its retry succeeded.
LinkRetriedOnce ==
    /\ prog = "Importer"
    /\ \E i \in Calls :
          /\ calls[i].op = "create_link" /\ IsRetry(i) /\ calls[i].ok
          /\ calls[i - 1].res = "transport"

\* the Summary of the last Task row at or before row r, None without one
RECURSIVE ParentOf(_)
ParentOf(r) ==
    IF r = 0 THEN None
    ELSE IF rows[r].IssueType = "Task" THEN rows[r].Summary
    ELSE ParentOf(r - 1)

\* the names under which issues have been created when row r resolves its
\* dependency: the Tasks before it, and the Sub-tasks up to it under their parent
CreatedNames(r) ==
    {rows[q].Summary : q \in {x \in 1..r : rows[x].IssueType = "Task"}} \cup
    {ParentOf(q) \o <<":">> \o rows[q].Summary :
        q \in {x \in 1..r : rows[x].IssueType = "Sub-task"}}

HasDependency(r) == rows[r].IssueType = "Sub-task" /\ strip(rows[r].DependsOn) # <<>>

Unresolved(r) ==
    LET dep == strip(rows[r].DependsOn)
    IN  /\ dep \notin CreatedNames(r)
        /\ dep \o <<":">> \o Design \notin CreatedNames(r)
        /\ dep \o <<":">> \o Approval \notin CreatedNames(r)

Warnings == {n \in 1..Len(out) : out[n].tag = "Warning"}

\* C20: a Sub-task whose Depends-on names no issue created so far gets a
\* warning and no pending link, and nothing is raised: the row loop goes on,
\* every other dependency is recorded, and a run with status 0 has visited
\* every row and requested every pending link.
UnresolvedDependencyOnlyWarns ==
    prog = "Importer" =>
        /\ \A r \in 1..Len(rows) : (r < idx /\ HasDependency(r)) =>
              (Unresolved(r) <=> \E n \in Warnings : out[n].row = r)
        /\ \A n \in Warnings :
              /\ idx > out[n].row
              /\ HasDependency(out[n].row)
              /\ \A m \in Warnings : out[m].row = out[n].row => m = n
        /\ Len(pending_links) + Cardinality(Warnings)
              = Cardinality({r \in 1..Len(rows) : r < idx /\ HasDependency(r)})
        /\ exit_code = 0 =>
              /\ idx > Len(rows)
              /\ \A n \in 1..Len(pending_links) :
                    \E i \in Calls :
                        /\ calls[i].op = "create_link"
                        /\ << calls[i].a, calls[i].b >> = pending_links[n]

\* C20 witness: a dependency was not resolved (warning at row 2), the next
\* row's issue was created, its dependency was linked, and the run ended with
\* status 0.
UnresolvedWarnedOthersLinked ==
    /\ prog = "Importer" /\ exit_code = 0 /\ ~dry_run
    /\ \E n \in Warnings : out[n].row = 2
    /\ \E i \in Calls : calls[i].op = "create_issue" /\ calls[i].row = 3 /\ calls[i].ok
    /\ \E i \in Calls : calls[i].op = "create_link" /\ calls[i].ok

\* the last Task row before row r, 0 without one
RECURSIVE TaskBefore(_)
TaskBefore(r) ==
    IF r <= 1 THEN 0
    ELSE IF rows[r - 1].IssueType = "Task" THEN r - 1
    ELSE TaskBefore(r - 1)

SubtaskCreates ==
    { i \in Calls : calls[i].op = "create_issue" /\ calls[i].a.issuetype = "Sub-task" }

\* C25: every create call of a Sub-task names as parent the key returned for
\* the last Task row before it; at a Sub-task row with no Task row before it
\* the run stops, with no create call for that row and no row after it begun.
ParentIsLatestTask ==
    prog = "Importer" =>
        /\ \A i \in SubtaskCreates :
              /\ TaskBefore(calls[i].row) # 0
              /\ calls[i].a.parent = KeyOfRow(TaskBefore(calls[i].row))
        /\ \A r \in 1..Len(rows) :
              (rows[r].IssueType = "Sub-task" /\ TaskBefore(r) = 0) =>
                  /\ RowCalls(r) = {}
                  /\ idx <= r
                  /\ pc \in {"start", "wipe_search", "wipe_delete", "rows", "exited"}
                  /\ exit_code # 0

\* two Tasks, then a Sub-task created under the second one
SubtaskUnderSecondTask ==
    /\ prog = "Importer" /\ ~dry_run /\ Len(rows) = 3
    /\ rows[1].IssueType = "Task" /\ rows[2].IssueType = "Task"
    /\ \E i \in SubtaskCreates :
          /\ calls[i].row = 3 /\ calls[i].ok
          /\ calls[i].a.parent = KeyOfRow(2)
          /\ calls[i].a.parent # KeyOfRow(1)

-----------------------------------------------------------------------------
(* Properties of all three scripts *)

\* C12: a failed link request is isolated in every script: it does not end the
\* run, an error status is reported on a line of its own, and no delete, and
\* no update of the same row, follows it.
LinkFailureIsIsolated ==
    \A i \in Calls : Failed(i, {"create_link"}) =>
        /\ ~(exit_code = 1 /\ i = Len(calls))
        /\ calls[i].res = "status" =>
              \E n \in 1..Len(out) :
                  /\ out[n].tag \in {"ERROR linking", "Jira POST error"}
                  /\ out[n].row = calls[i].row
        /\ \A j \in (i + 1)..Len(calls) :
              /\ calls[j].op # "delete_issue"
              /\ calls[j].op = "update_issue" => calls[j].row # calls[i].row

\* C17: a pre-flight failure ends the run before any request: with missing
\* credentials or an unreadable CSV no request has been issued, and a project
\* that cannot be fetched is followed by no search, delete, create or update.
PreflightFailureBeforeAnyCall ==
    prog \in {"ColumnUpdater", "Importer"} =>
        /\ (~env_ok \/ ~csv_ok) => calls = <<>>
        /\ \A i \in Calls : Failed(i, {"get_project"}) =>
              /\ i = Len(calls)
              /\ \A j \in 1..(i - 1) : calls[j].op = "get_project"

\* the create request that returned key k
CreatedAt(k) ==
    {j \in Calls : calls[j].op = "create_issue" /\ calls[j].ok /\ calls[j].b = k}

\* C19: in every link request the inward issue (a) is the dependent one, the
\* issue of the row that lists the dependency, and the outward issue (b) is
\* the one depended on; ColumnUpdater swaps the two with direction "blocks".
DependentIsInward ==
    \A i \in Calls : (calls[i].op = "create_link" /\ calls[i].sent) =>
        CASE prog = "ColumnUpdater" ->
               LET mine == IF direction = "blocked_by" THEN calls[i].a ELSE calls[i].b
                   dep  == IF direction = "blocked_by" THEN calls[i].b ELSE calls[i].a
               IN  /\ \E n \in 1..Len(Deps(calls[i].row)) : Deps(calls[i].row)[n] = dep
                   /\ \E j \in RowCalls(calls[i].row) :
                         calls[j].op = "update_issue" /\ calls[j].a = mine
          [] prog = "DependencyUpdater" ->
               /\ calls[i - 2].op = "search" /\ calls[i - 2].a = rows[calls[i].row].Summary
               /\ calls[i].a = calls[i - 2].b[1].key
               /\ calls[i - 1].op = "search" /\ calls[i - 1].a = rows[calls[i].row].DependsOn
               /\ calls[i].b = calls[i - 1].b[1].key
          [] prog = "Importer" ->
               \E j \in CreatedAt(calls[i].a), k \in CreatedAt(calls[i].b) :
                   /\ rows[calls[j].row].IssueType = "Sub-task"
                   /\ strip(rows[calls[j].row].DependsOn) # <<>>
                   /\ k < j
          [] OTHER -> TRUE

-----------------------------------------------------------------------------
(* ColumnUpdater run with --dry-run, then again without it on the same CSV
   and the same project ("Remove --dry-run to apply updates") *)

\* The second run starts: same arguments but --dry-run, the project as it
\* was before the first run, and a tracker that answers as it did.  The mark
\* put in the log keeps the counters the dry run printed.
CU_Rerun ==
    /\ prog = "ColumnUpdater" /\ pc = "exited" /\ exit_code = 0
    /\ dry_run /\ RerunAt = 0
    /\ dry_run' = FALSE
    /\ calls' = Append(calls, Echo("rerun", << updated, linked, skipped >>, <<>>))
    /\ pc' = "start" /\ exit_code' = -1 /\ idx' = 0
    /\ updated' = 0 /\ linked' = 0 /\ skipped' = 0
    /\ key' = <<>> /\ summary' = <<>> /\ fields' = EmptyDict /\ todo' = <<>>
    /\ user_cache' = EmptyDict /\ version_cache' = EmptyDict
    /\ component_cache' = EmptyDict
    /\ t_components' = Before(t_components, "create_component")
    /\ t_versions' = Before(t_versions, "create_version")
    /\ UNCHANGED << prog, rows, env_ok, csv_ok, max_arg, direction, importer,
                    processed, out, runner >>

InitDryLive == InitCU /\ dry_run

NextDryLive == NextCU \/ CU_Rerun

SpecDryLive == InitDryLive /\ [][NextDryLive]_vars

\* the counters the dry run ended with: updated, linked, skipped
DryCounters == calls[RerunAt].a

\* the requests of the dry run and of the live run, in order
DryCalls == SubSeq(calls, 1, RerunAt - 1)

LiveCalls == SubSeq(calls, RerunAt + 1, Len(calls))

LiveFailed(op) ==
    Cardinality({i \in 1..Len(LiveCalls) : LiveCalls[i].op = op /\ ~LiveCalls[i].ok})

BothRunsEnded == RerunAt # 0 /\ pc = "exited" /\ exit_code = 0

\* C13 (as claimed): a dry run and a live run over the same CSV and the same
\* tracker end with the same counters.
DryAndLiveCountersIdentical ==
    BothRunsEnded => << updated, linked, skipped >> = DryCounters

\* C13 (amended): the two runs skip the same rows, resolve the same keys and
\* attempt the same updates and links, but the dry run counts every attempt
\* and the live run only the successful ones: without --max the live
\* counters are the dry ones less the failed updates and the failed links,
\* skipped being equal; with --max the live run updates no more and skips no
\* fewer rows than the dry run.
LiveCountsDryLessFailures ==
    BothRunsEnded =>
        /\ updated <= DryCounters[1]
        /\ skipped >= DryCounters[3]
        /\ max_arg = 0 =>
              /\ skipped = DryCounters[3]
              /\ updated = DryCounters[1] - LiveFailed("update_issue")
              /\ linked = DryCounters[2] - LiveFailed("create_link")
              /\ Len(LiveCalls) = Len(DryCalls)
              /\ \A i \in 1..Len(LiveCalls) :
                    /\ LiveCalls[i].op = DryCalls[i].op
                    /\ LiveCalls[i].row = DryCalls[i].row
                    /\ LiveCalls[i].a = DryCalls[i].a
                    /\ LiveCalls[i].b = DryCalls[i].b

\* C13 witness: both runs ended, and the live run, in which an update and a
\* link failed, counted fewer updated rows and fewer links than the dry run.
LiveCountedFewerThanDry ==
    /\ BothRunsEnded /\ max_arg = 0
    /\ LiveFailed("update_issue") > 0 /\ LiveFailed("create_link") > 0
    /\ updated < DryCounters[1] /\ linked < DryCounters[2]
    /\ skipped = DryCounters[3] /\ skipped > 0

-----------------------------------------------------------------------------
(* Properties of ColumnUpdater: the field delta, the caches, the counters *)

\* the columns build_fields reads in the model, and the field each one fills
ColumnOf ==
    [labels |-> "Labels", components |-> "Components", fixVersions |-> "FixVersions",
     assignee |-> "AssigneeEmail"]

\* C21: the delta of an update never holds a field that would clear it: every
\* field present carries a non-empty value, a field whose column is empty or
\* blank is absent, and so is a list field whose column holds only separators
\* and blanks.
NoEmptyFieldInDelta ==
    prog = "ColumnUpdater" =>
        \A i \in Calls : calls[i].op = "update_issue" =>
            LET f == calls[i].b
                r == rows[calls[i].row]
            IN  /\ \A n \in DOMAIN f : f[n] # <<>>
                /\ \A n \in DOMAIN ColumnOf :
                      strip(r[ColumnOf[n]]) = <<>> => n \notin DOMAIN f
                /\ \A n \in {"labels", "components", "fixVersions"} :
                      split_list(r[ColumnOf[n]]) = <<>> => n \notin DOMAIN f

\* the remote lookups behind the three caches, and the key of each
Lookups == { i \in Calls : calls[i].op \in {"user_search", "list_components", "list_versions"} }

LookupKey(i) ==
    IF calls[i].op = "list_versions" THEN << calls[i].a, calls[i].b >> ELSE calls[i].a

\* C22: once an email, the component list of a project, or a version name of a
\* project has been looked up, no later lookup of the same kind is issued for
\* the same key, whatever the first one found.
CachesAuthoritative ==
    prog = "ColumnUpdater" =>
        \A i, j \in Lookups :
            (calls[i].op = calls[j].op /\ LookupKey(i) = LookupKey(j)) => i = j

\* the first row's user search found nobody, its version and component lookups
\* were answered, and a second row naming the same email, version and
\* component has been built and updated with no lookup of its own
SecondRowServedFromCaches ==
    /\ prog = "ColumnUpdater" /\ Len(rows) = 2 /\ rows[1] = rows[2]
    /\ \E i \in Lookups : /\ calls[i].op = "user_search" /\ calls[i].row = 1
                           /\ calls[i].ok /\ calls[i].b = <<>>
    /\ \E i \in Lookups : calls[i].op = "list_versions" /\ calls[i].row = 1
    /\ \E i \in Lookups : calls[i].op = "list_components" /\ calls[i].row = 1
    /\ \E i \in Calls : calls[i].op = "update_issue" /\ calls[i].row = 2
    /\ \A i \in Lookups : calls[i].row = 1

\* the rows whose turn of the loop has begun (past the --max test)
RowsStarted ==
    IF idx = 0 THEN 0
    ELSE IF pc \in {"loop", "summary"} \/ exit_code = 0 THEN idx - 1
    ELSE idx

\* what main has recorded: the rows with a SKIP line, the update calls that
\* returned without error and their rows, the rows with an ERROR updating line
SkippedRows == { out[n].row : n \in SkipLines }

UpdatesDone == { i \in Calls : calls[i].op = "update_issue" /\ calls[i].ok }

UpdatedRows == { calls[i].row : i \in UpdatesDone }

UpdateErrorRows == { out[n].row : n \in {m \in 1..Len(out) : out[m].tag = "ERROR updating"} }

LinkCalls == { i \in Calls : calls[i].op = "create_link" }

\* C24: a row that was started is skipped, updated or reported as an update
\* error, never two of them, and it is one of them as soon as its skip or its
\* update attempt is over; skipped and updated count exactly those rows, so
\* their sum never exceeds the rows started; updated counts the update calls
\* that returned without error, linked the link calls that did, which is at most
\* the link calls made.
CountersAccountForRows ==
    prog = "ColumnUpdater" =>
        LET skips  == SkippedRows
            done   == UpdatesDone
            ups    == UpdatedRows
            errs   == UpdateErrorRows
            links  == LinkCalls
            started == RowsStarted
        IN  /\ skips \cap ups = {} /\ skips \cap errs = {} /\ ups \cap errs = {}
            /\ \A r \in skips \cup ups \cup errs : r \in 1..started
            /\ \A r \in 1..Len(rows) :
                  (r < idx \/ (r = idx /\ pc = "links")) => r \in skips \cup ups \cup errs
            /\ skipped = Cardinality(skips)
            /\ updated = Cardinality(ups)
            /\ updated = Cardinality(done)
            /\ updated + skipped <= started
            /\ linked = Cardinality({i \in links : calls[i].ok})
            /\ linked <= Cardinality(links)

\* a finished run of two rows: one skipped, one whose update failed and of
\* whose two links one failed
SkippedFailedAndHalfLinked ==
    /\ prog = "ColumnUpdater" /\ exit_code = 0 /\ Len(rows) = 2
    /\ skipped = 1 /\ updated = 0 /\ linked = 1
    /\ UpdateErrorRows # {}
    /\ Cardinality(LinkCalls) = 2

-----------------------------------------------------------------------------
(* Importer.search_issues against a tracker of T issues, as wipe_project calls it *)

\* the T issues of the project, in the order the tracker lists them
IssueList(T) == [i \in 1..T |-> <<"X", i>>]

\* the tracker holds 0..MaxIssues issues and serves pages of at most page_cap,
\* which is below the maxResults asked for or not
InitPaging ==
    /\ prog = "Importer"
    /\ pc = "start"
    /\ dry_run \in BOOLEAN
    /\ no_wipe = FALSE
    /\ env_ok = TRUE
    /\ csv_ok = TRUE
    /\ rows = <<>>
    /\ \E T \in 0..MaxIssues : t_issues = IssueList(T)
    /\ page_cap \in 1..MaxPageCap \cup {max_per_page}
    /\ idx = 0 /\ calls = <<>> /\ out = <<>> /\ exit_code = -1 /\ todo = <<>>
    /\ start_at = 0 /\ issues = <<>>
    /\ created = EmptyDict /\ pending_links = <<>> /\ current_parent = None
    /\ ColumnUpdaterIdle
    /\ DependencyUpdaterIdle
    /\ RunnerIdle

NextPaging ==
    \/ IM_Preflight
    \/ IM_SearchPage
    \/ IM_Delete

\* the script runs on: a turn of the search loop that can be taken is taken
SpecPaging == InitPaging /\ [][NextPaging]_vars /\ WF_vars(IM_SearchPage)

Searches == { i \in Calls : calls[i].op = "search_issues" }

\* search_issues has returned its list and nothing has been deleted yet
SearchReturned ==
    /\ prog = "Importer" /\ pc \in {"wipe_delete", "rows"}
    /\ Searches # {}
    /\ \A i \in Calls : calls[i].op # "delete_issue"

\* in the loop the list is the first start_at issues, and every request made
\* so far moved start_at on; on return the list is the T issues in order
SearchSoFar ==
    /\ (prog = "Importer" /\ pc = "wipe_search" /\ exit_code = -1) =>
          /\ start_at <= Len(t_issues)
          /\ issues = SubSeq(t_issues, 1, start_at)
          /\ Cardinality(Searches) <= start_at
          /\ Searches # {} => start_at < Len(t_issues)
    /\ SearchReturned =>
          /\ issues = t_issues
          /\ \A m, n \in 1..Len(issues) : issues[m] = issues[n] => m = n
          /\ Cardinality(Searches) <= IF t_issues = <<>> THEN 1 ELSE Len(t_issues)

\* C23: against a tracker of T issues that answers each request with the slice
\* at startAt, of at most maxResults issues or fewer, and total = T,
\* search_issues ends and returns the T issues in order, each exactly once.
SearchReturnsEveryIssueOnce ==
    /\ []SearchSoFar
    /\ (prog = "Importer" /\ pc = "wipe_search") ~> (pc # "wipe_search")

\* three issues came back in three pages of one, shorter than the 100 asked for
ThreeShortPagesReturned ==
    /\ SearchReturned /\ page_cap = 1 /\ Len(t_issues) = 3
    /\ Cardinality(Searches) = 3 /\ issues = t_issues
    /\ \A i \in Searches : calls[i].b = max_per_page

-----------------------------------------------------------------------------
(* Runner.main: the three scripts as child processes, one after the other *)

\* the scripts in the order main names them
Scripts == << "Importer", "ColumnUpdater", "DependencyUpdater" >>

\* dry_run_flag = ["--dry-run"] if args.dry_run else []
dry_run_flag == runner.dry

\* the command line of the next script; --no-wipe, --max and
\* --dependencies-direction are never passed
command(script_name) == [script |-> script_name, dry |-> dry_run_flag, status |-> -1]

\* the CSVs of the model as the script reads them (each script reads its own
\* columns of the file)
RowsOf(script_name) ==
    IF script_name = "ColumnUpdater" THEN SeqsUpTo(CU_RowChoices, MaxRows)
    ELSE SeqsUpTo(IM_RowChoices, MaxRows)

\* subprocess.run([sys.executable, script_name] + args): a new process, with
\* nothing in memory, at the start of the script's main; the environment, the
\* CSV and the tracker are what they happen to be
new_process(c) ==
    /\ prog' = c.script /\ pc' = "start"
    /\ dry_run' = c.dry
    /\ no_wipe' = FALSE /\ max_arg' = 0 /\ direction' = "blocked_by"
    /\ env_ok' \in BOOLEAN
    /\ csv_ok' \in BOOLEAN
    /\ rows' \in RowsOf(c.script)
    /\ (~env_ok' \/ ~csv_ok') => rows' = <<>>
    /\ IF c.script = "Importer"
       THEN \E t \in IM_TrackerChoices : t_issues' = t.issues /\ page_cap' = t.cap
       ELSE t_issues' = <<>> /\ page_cap' = 0
    /\ IF c.script = "ColumnUpdater"
       THEN \E t \in TrackerChoices :
               t_components' = t.components /\ t_versions' = t.versions
       ELSE t_components' = <<>> /\ t_versions' = <<>>
    /\ idx' = 0 /\ calls' = <<>> /\ out' = <<>> /\ exit_code' = -1 /\ todo' = <<>>
    /\ updated' = 0 /\ linked' = 0 /\ skipped' = 0 /\ processed' = 0
    /\ key' = <<>> /\ summary' = <<>> /\ fields' = EmptyDict
    /\ user_cache' = EmptyDict /\ version_cache' = EmptyDict
    /\ component_cache' = EmptyDict
    /\ start_at' = 0 /\ issues' = <<>> /\ created' = EmptyDict
    /\ pending_links' = <<>> /\ current_parent' = None

\* print("Running ..."); run_script(...) down to subprocess.run(command, ...)
RN_RunScript ==
    /\ runner.pc = "main" /\ Len(runner.ran) < Len(Scripts)
    /\ LET c == command(Scripts[Len(runner.ran) + 1])
       IN  /\ runner' = [runner EXCEPT !.pc = "child", !.ran = Append(@, c),
                                        !.out = Append(@, "Running")]
           /\ new_process(c)

\* (mutant) subprocess.run without check=True: no status raises
unchecked(returncode) == FALSE

\* check=True: CalledProcessError if the exit status is not zero
CalledProcessError(returncode) == returncode # 0

\* subprocess.run returns or raises: print "Successfully ran", or print
\* "Error running" and sys.exit(1)
RN_ScriptExited ==
    /\ runner.pc = "child" /\ pc = "exited"
    /\ LET n == Len(runner.ran)
           ran == [runner.ran EXCEPT ![n].status = exit_code]
       IN  runner' = IF CalledProcessError(exit_code)
                     THEN [runner EXCEPT !.pc = "exited", !.exit = 1, !.ran = ran,
                                         !.out = Append(@, "Error running")]
                     ELSE [runner EXCEPT !.pc = "main", !.ran = ran,
                                         !.out = Append(@, "Successfully ran")]
    /\ UNCHANGED << prog, pc, dry_run, rows, idx, calls, out, exit_code, env_ok, csv_ok,
                    max_arg, direction, updated, linked, skipped, key, summary, fields,
                    todo, user_cache, version_cache, component_cache,
                    t_components, t_versions, no_wipe, start_at, issues, created,
                    pending_links, current_parent, t_issues, page_cap, processed >>

\* print("All scripts executed successfully."), and main returns
RN_Done ==
    /\ runner.pc = "main" /\ Len(runner.ran) = Len(Scripts)
    /\ runner' = [runner EXCEPT !.pc = "exited", !.exit = 0,
                                 !.out = Append(@, "All scripts executed successfully")]
    /\ UNCHANGED << prog, pc, dry_run, rows, idx, calls, out, exit_code, env_ok, csv_ok,
                    max_arg, direction, updated, linked, skipped, key, summary, fields,
                    todo, user_cache, version_cache, component_cache,
                    t_components, t_versions, no_wipe, start_at, issues, created,
                    pending_links, current_parent, t_issues, page_cap, processed >>

\* args = parser.parse_args(): no script has been started
InitRunner ==
    /\ runner \in [pc : {"main"}, dry : BOOLEAN, ran : {<<>>}, out : {<<>>}, exit : {-1}]
    /\ prog = "Runner" /\ pc = "main"
    /\ dry_run = FALSE /\ rows = <<>> /\ env_ok = TRUE /\ csv_ok = TRUE
    /\ idx = 0 /\ calls = <<>> /\ out = <<>> /\ exit_code = -1 /\ todo = <<>>
    /\ ColumnUpdaterIdle
    /\ ImporterIdle
    /\ DependencyUpdaterIdle

NextRunner ==
    \/ RN_RunScript
    \/ RN_ScriptExited
    \/ RN_Done
    \/ NextImp
    \/ NextCU
    \/ NextDU

SpecRunner == InitRunner /\ [][NextRunner]_vars

Ran == 1..Len(runner.ran)

\* C26: Runner starts Importer, ColumnUpdater and DependencyUpdater in that
\* order, each one only after the one before it has exited with status zero;
\* when a script exits with another status Runner exits with status 1 and
\* starts no further script; every script started gets Runner's --dry-run.
ScriptsInOrderUntilFirstFailure ==
    runner.pc # "none" =>
        /\ Len(runner.ran) <= Len(Scripts)
        /\ \A k \in Ran :
              /\ runner.ran[k].script = Scripts[k]
              /\ runner.ran[k].dry = runner.dry
              /\ k < Len(runner.ran) => runner.ran[k].status = 0
        /\ runner.pc = "child" =>
              /\ prog = Scripts[Len(runner.ran)] /\ dry_run = runner.dry
              /\ runner.ran[Len(runner.ran)].status = -1
              /\ runner.exit = -1
        /\ runner.pc = "main" =>
              /\ \A k \in Ran : runner.ran[k].status = 0
              /\ Ran # {} => (pc = "exited" /\ exit_code = 0)
              /\ runner.exit = -1
        /\ runner.pc = "exited" =>
              \/ /\ runner.exit = 1 /\ Ran # {}
                 /\ runner.ran[Len(runner.ran)].status \notin {-1, 0}
                 /\ runner.ran[Len(runner.ran)].status = exit_code
              \/ /\ runner.exit = 0 /\ Len(runner.ran) = Len(Scripts)
                 /\ \A k \in Ran : runner.ran[k].status = 0

\* with --dry-run, Importer exited with zero, ColumnUpdater with another
\* status: Runner has exited with 1 and DependencyUpdater was never started
SecondScriptFailed ==
    /\ runner.pc = "exited" /\ runner.exit = 1 /\ runner.dry
    /\ Len(runner.ran) = 2
    /\ runner.ran[1] = [script |-> "Importer", dry |-> TRUE, status |-> 0]
    /\ runner.ran[2].script = "ColumnUpdater" /\ runner.ran[2].dry
    /\ runner.ran[2].status # 0
    /\ prog = "ColumnUpdater" /\ dry_run

-----------------------------------------------------------------------------
(* Any of the scripts *)

Init == InitImp \/ InitCU \/ InitDU \/ InitSearch

Next == NextImp \/ NextCU \/ NextDU \/ NextSearch

Spec == Init /\ [][Next]_vars

====
